---- MODULE Spec2Model ----
(***************************************************************************)
(* open-kbp: conversion of the OpenKBP dataset into one HDF5 container     *)
(* (provided_code/hdf5_converter.py) and the two readers of that container *)
(* (HDF5Converter.load_from_hdf5 and example_hdf5_usage.py).               *)
(*                                                                         *)
(* The container is modelled as the tree h5py exposes: root attributes,    *)
(* the group 'patients', one group per patient with attributes, datasets   *)
(* and the nested group 'roi_names' whose attributes roi_<i> hold the ROI  *)
(* names.  convert_dataset is followed statement by statement, because any *)
(* statement of it may raise and leave the file as written so far.         *)
(***************************************************************************)
EXTENDS Integers, Sequences, FiniteSets, TLC

VARIABLES
    h5file,       \* the file at output_path
    pc,           \* position of convert_dataset / convert_patient_to_group
    patient_ids,  \* the list convert_dataset iterates over
    idx,          \* position in patient_ids of the patient being written (1-based)
    batch,        \* the batch get_patients returned for the current patient
    i,            \* enumerate() index of the roi_names loop
    error,        \* the exception convert_dataset raised and the statement that raised it
    supplied,     \* what the loader has returned so far, per requested patient ID
    result,       \* what the most recent reader call returned or raised
    deleted       \* number of roi_<i> attributes removed from the finished file

vars == <<h5file, pc, patient_ids, idx, batch, i, error, supplied, result, deleted>>

----------------------------------------------------------------------------
(* Bounds of the model *)

\* longest patient_ids list passed to convert_dataset
MaxPatients == 2

\* largest number of ROIs (channels of structure_masks) of one patient
MaxRois == 2

\* how many roi_<i> attributes are removed from a finished container
MaxDeleted == 1

----------------------------------------------------------------------------
(* Values *)

PatientIds == {"pt_1", "pt_10", "pt_2"}

\* HDF5 iterates the links of a group that does not track creation order by
\* the name index, in increasing byte order of the names.
NameOrder == <<"pt_1", "pt_10", "pt_2">>

NameRank(name) == CHOOSE k \in 1..Len(NameOrder) : NameOrder[k] = name

EmptyFn == [x \in {} |-> x]

Range(s) == {s[k] : k \in 1..Len(s)}

SeqsUpTo(S, n) == UNION {[1..m -> S] : m \in 0..n}

\* f'roi_{i}'
RoiKeys == <<"roi_0", "roi_1", "roi_2", "roi_3", "roi_4", "roi_5">>

RoiKey(n) == RoiKeys[n + 1]

\* f'Unknown_{i}'
UnknownNames == <<"Unknown_0", "Unknown_1", "Unknown_2", "Unknown_3", "Unknown_4", "Unknown_5">>

Unknown(n) == UnknownNames[n + 1]

\* ','.join(list)
RECURSIVE Join(_)
Join(list) ==
    IF Len(list) = 0 THEN <<>>
    ELSE IF Len(list) = 1 THEN <<list[1]>>
    ELSE <<list[1], ",">> \o Join(Tail(list))

\* a numpy array: its shape and its contents
Array(shape, values) == [shape |-> shape, values |-> values]

\* array.shape[-1]
TrailingExtent(array) == array.shape[Len(array.shape)]

----------------------------------------------------------------------------
(* The external DataLoader *)

full_roi_list == <<"C", "A", "B", "D">>

patient_id_list == <<"pt_2", "pt_10">>

\* the ROI names of one patient: the first n names of the vocabulary
NameLists == {SubSeq(full_roi_list, 1, n) : n \in 1..MaxRois}

\* get_patients([patient_id]): a batch of one patient; structure_mask_names is
\* aligned to the trailing axis of structure_masks
Batch(patient_id, names) ==
    [dose |-> <<Array(<<128, 128, 128, 1>>, <<"dose", patient_id>>)>>,
     ct |-> <<Array(<<128, 128, 128, 1>>, <<"ct", patient_id>>)>>,
     structure_masks |->
        <<Array(<<128, 128, 128, Len(names)>>, <<"structure_masks", patient_id>>)>>,
     possible_dose_mask |->
        <<Array(<<128, 128, 128, 1>>, <<"possible_dose_mask", patient_id>>)>>,
     voxel_dimensions |-> <<Array(<<3>>, <<"voxel_dimensions", patient_id>>)>>,
     structure_mask_names |-> names]

NoBatch == Batch("", <<>>)

----------------------------------------------------------------------------
(* h5py *)

\* a file that does not exist
NoFile == [exists |-> FALSE, attrs |-> EmptyFn, has_patients |-> FALSE,
           patients |-> EmptyFn]

\* h5py.File(path, 'w'): created, truncated if it exists
NewFile == [exists |-> TRUE, attrs |-> EmptyFn, has_patients |-> FALSE,
            patients |-> EmptyFn]

\* create_group(name): a new group, empty
NewGroup == [attrs |-> EmptyFn, datasets |-> EmptyFn, has_roi_names |-> FALSE,
             roi_attrs |-> EmptyFn]

\* create_dataset(name, data=..., compression=..., compression_opts=...)
Dataset(data, compression, opts) ==
    [data |-> data, compression |-> compression, compression_opts |-> opts]

\* np.array(dataset)
NpArray(dataset) == dataset.data

\* list(group.keys()): the member names in increasing name order
Keys(members) ==
    CHOOSE s \in [1..Cardinality(DOMAIN members) -> DOMAIN members] :
        /\ Range(s) = DOMAIN members
        /\ \A a, b \in 1..Len(s) : a < b => NameRank(s[a]) < NameRank(s[b])

\* attrs.get(key, default)
AttrsGet(attrs, key, default) == IF key \in DOMAIN attrs THEN attrs[key] ELSE default

\* the file with the group of the patient at idx replaced
WithPatient(f, patient_id, group) ==
    [f EXCEPT !.patients = (patient_id :> group) @@ f.patients]

----------------------------------------------------------------------------
(* State after construction of the converter *)

\* a container an earlier run left at output_path
PriorContainer ==
    [exists |-> TRUE,
     attrs |-> ("num_patients" :> 1) @@ ("patient_shape" :> <<128, 128, 128>>)
               @@ ("rois" :> Join(full_roi_list)),
     has_patients |-> TRUE,
     patients |-> ("pt_10" :>
        [attrs |-> ("id" :> "pt_10") @@ ("num_rois" :> 1),
         datasets |->
            ("dose" :> Dataset(Array(<<128, 128, 128, 1>>, <<"dose", "old">>), "gzip", 9))
            @@ ("ct" :> Dataset(Array(<<128, 128, 128, 1>>, <<"ct", "old">>), "gzip", 9))
            @@ ("structure_masks" :>
                Dataset(Array(<<128, 128, 128, 1>>, <<"structure_masks", "old">>), "gzip", 9))
            @@ ("possible_dose_mask" :>
                Dataset(Array(<<128, 128, 128, 1>>, <<"possible_dose_mask", "old">>), "gzip", 9))
            @@ ("voxel_dimensions" :>
                Dataset(Array(<<3>>, <<"voxel_dimensions", "old">>), "none", 0)),
         has_roi_names |-> TRUE,
         roi_attrs |-> ("roi_0" :> "C")])]

NoResult == [op |-> "none", id |-> "", status |-> "none", exception |-> "none", value |-> <<>>]

NoError == [type |-> "none", at |-> "none"]

Init ==
    /\ h5file \in {NoFile, PriorContainer}
    /\ pc = "idle"
    /\ patient_ids = <<>>
    /\ idx = 1
    /\ batch = NoBatch
    /\ i = 0
    /\ error = NoError
    /\ supplied = EmptyFn
    /\ result = NoResult
    /\ deleted = 0

----------------------------------------------------------------------------
(* HDF5Converter.convert_dataset *)

\* the patient convert_patient_to_group is working on
patient_id == patient_ids[idx]

\* patients_group[patient_id]
patient_group == h5file.patients[patient_id]

\* the patient_ids argument: None, or a list of at most MaxPatients IDs
Arguments ==
    {[is_none |-> TRUE, list |-> <<>>]}
    \cup {[is_none |-> FALSE, list |-> l] : l \in SeqsUpTo(PatientIds, MaxPatients)}

\* convert_dataset(patient_ids): None stands for the loader's whole list
ConvertDataset(arg) ==
    /\ pc = "idle"
    /\ patient_ids' = IF arg.is_none THEN patient_id_list ELSE arg.list
    /\ pc' = "open"
    /\ result' = NoResult
    /\ UNCHANGED <<h5file, idx, batch, i, error, supplied, deleted>>

\* with h5py.File(self.output_path, 'w') as h5f
OpenFile ==
    /\ pc = "open"
    /\ h5file' = NewFile
    /\ pc' = "root_attrs"
    /\ UNCHANGED <<patient_ids, idx, batch, i, error, supplied, result, deleted>>

\* WriteRootAttrs, were num_patients taken from the loader's list instead of
\* the list being converted
WriteRootAttrsLoaderCount ==
    /\ pc = "root_attrs"
    /\ h5file' = [h5file EXCEPT !.attrs =
            ("num_patients" :> Len(patient_id_list))
            @@ ("patient_shape" :> <<128, 128, 128>>)
            @@ ("rois" :> Join(full_roi_list))
            @@ h5file.attrs]
    /\ pc' = "create_patients"
    /\ UNCHANGED <<patient_ids, idx, batch, i, error, supplied, result, deleted>>

\* h5f.attrs['num_patients'], ['patient_shape'], ['rois']
WriteRootAttrs ==
    /\ pc = "root_attrs"
    /\ h5file' = [h5file EXCEPT !.attrs =
            ("num_patients" :> Len(patient_ids))
            @@ ("patient_shape" :> <<128, 128, 128>>)
            @@ ("rois" :> Join(full_roi_list))
            @@ h5file.attrs]
    /\ pc' = "create_patients"
    /\ UNCHANGED <<patient_ids, idx, batch, i, error, supplied, result, deleted>>

\* patients_group = h5f.create_group('patients'): h5py raises ValueError when
\* the name already exists
CreatePatientsGroup ==
    /\ pc = "create_patients"
    /\ IF h5file.has_patients
       THEN /\ pc' = "raised"
            /\ error' = [type |-> "ValueError: name already exists", at |-> pc]
            /\ UNCHANGED h5file
       ELSE /\ h5file' = [h5file EXCEPT !.has_patients = TRUE, !.patients = EmptyFn]
            /\ pc' = "loop"
            /\ UNCHANGED error
    /\ idx' = 1
    /\ UNCHANGED <<patient_ids, batch, i, supplied, result, deleted>>

\* NextPatient, were the loop to stop before the last patient
NextPatientStopsEarly ==
    /\ pc = "loop"
    /\ pc' = IF idx < Len(patient_ids) THEN "get_patients" ELSE "done"
    /\ UNCHANGED <<h5file, patient_ids, idx, batch, i, error, supplied, result, deleted>>

\* for patient_id in tqdm(patient_ids): the next patient, or the end of the
\* with block and the normal return
NextPatient ==
    /\ pc = "loop"
    /\ pc' = IF idx <= Len(patient_ids) THEN "get_patients" ELSE "done"
    /\ UNCHANGED <<h5file, patient_ids, idx, batch, i, error, supplied, result, deleted>>

----------------------------------------------------------------------------
(* HDF5Converter.convert_patient_to_group *)

\* batch = self.data_loader.get_patients([patient_id])
GetPatients ==
    /\ pc = "get_patients"
    /\ \E names \in NameLists :
        /\ patient_id \in DOMAIN supplied => supplied[patient_id] = Batch(patient_id, names)
        /\ batch' = Batch(patient_id, names)
    /\ supplied' = (patient_id :> batch') @@ supplied
    /\ pc' = "create_group"
    /\ UNCHANGED <<h5file, patient_ids, idx, i, error, result, deleted>>

\* CreatePatientGroup, were an existing group of that name replaced
CreatePatientGroupOverwrite ==
    /\ pc = "create_group"
    /\ h5file' = WithPatient(h5file, patient_id, NewGroup)
    /\ pc' = "attrs"
    /\ UNCHANGED <<patient_ids, idx, batch, i, error, supplied, result, deleted>>

\* patient_group = patients_group.create_group(patient_id): h5py raises
\* ValueError when the name already exists
CreatePatientGroup ==
    /\ pc = "create_group"
    /\ IF patient_id \in DOMAIN h5file.patients
       THEN /\ pc' = "raised"
            /\ error' = [type |-> "ValueError: name already exists", at |-> pc]
            /\ UNCHANGED h5file
       ELSE /\ h5file' = WithPatient(h5file, patient_id, NewGroup)
            /\ pc' = "attrs"
            /\ UNCHANGED error
    /\ UNCHANGED <<patient_ids, idx, batch, i, supplied, result, deleted>>

\* WritePatientAttrs, were num_rois the size of the loader's vocabulary
WritePatientAttrsVocabulary ==
    /\ pc = "attrs"
    /\ h5file' = WithPatient(h5file, patient_id,
            [patient_group EXCEPT !.attrs =
                ("id" :> patient_id)
                @@ ("num_rois" :> Len(full_roi_list))
                @@ patient_group.attrs])
    /\ pc' = "dose"
    /\ UNCHANGED <<patient_ids, idx, batch, i, error, supplied, result, deleted>>

\* patient_group.attrs['id'], ['num_rois']
WritePatientAttrs ==
    /\ pc = "attrs"
    /\ h5file' = WithPatient(h5file, patient_id,
            [patient_group EXCEPT !.attrs =
                ("id" :> patient_id)
                @@ ("num_rois" :> Len(batch.structure_mask_names))
                @@ patient_group.attrs])
    /\ pc' = "dose"
    /\ UNCHANGED <<patient_ids, idx, batch, i, error, supplied, result, deleted>>

\* the order of the create_dataset statements
DatasetOrder == <<"dose", "ct", "structure_masks", "possible_dose_mask", "voxel_dimensions">>

\* the data= argument of the create_dataset statement for `name`
DatasetSource(name) ==
    CASE name = "dose" -> batch.dose[1]
      [] name = "ct" -> batch.ct[1]
      [] name = "structure_masks" -> batch.structure_masks[1]
      [] name = "possible_dose_mask" -> batch.possible_dose_mask[1]
      [] name = "voxel_dimensions" -> batch.voxel_dimensions[1]

\* patient_group.create_dataset(name, data=..., ...): gzip level 9 for the four
\* volumes, none for voxel_dimensions
CreateDataset(k) ==
    /\ pc = DatasetOrder[k]
    /\ h5file' = WithPatient(h5file, patient_id,
            [patient_group EXCEPT !.datasets =
                (DatasetOrder[k] :>
                    IF DatasetOrder[k] = "voxel_dimensions"
                    THEN Dataset(DatasetSource(DatasetOrder[k]), "none", 0)
                    ELSE Dataset(DatasetSource(DatasetOrder[k]), "gzip", 9))
                @@ patient_group.datasets])
    /\ pc' = IF k < Len(DatasetOrder) THEN DatasetOrder[k + 1] ELSE "roi_group"
    /\ UNCHANGED <<patient_ids, idx, batch, i, error, supplied, result, deleted>>

\* roi_group = patient_group.create_group('roi_names')
CreateRoiGroup ==
    /\ pc = "roi_group"
    /\ h5file' = WithPatient(h5file, patient_id,
            [patient_group EXCEPT !.has_roi_names = TRUE, !.roi_attrs = EmptyFn])
    /\ i' = 0
    /\ pc' = "roi_loop"
    /\ UNCHANGED <<patient_ids, idx, batch, error, supplied, result, deleted>>

\* WriteRoiName, were the attributes numbered from 1
WriteRoiNameFromOne ==
    /\ pc = "roi_loop"
    /\ i < Len(batch.structure_mask_names)
    /\ h5file' = WithPatient(h5file, patient_id,
            [patient_group EXCEPT !.roi_attrs =
                (RoiKey(i + 1) :> batch.structure_mask_names[i + 1])
                @@ patient_group.roi_attrs])
    /\ i' = i + 1
    /\ UNCHANGED <<pc, patient_ids, idx, batch, error, supplied, result, deleted>>

\* for i, name in enumerate(batch.structure_mask_names):
\*     roi_group.attrs[f'roi_{i}'] = name
WriteRoiName ==
    /\ pc = "roi_loop"
    /\ i < Len(batch.structure_mask_names)
    /\ h5file' = WithPatient(h5file, patient_id,
            [patient_group EXCEPT !.roi_attrs =
                (RoiKey(i) :> batch.structure_mask_names[i + 1]) @@ patient_group.roi_attrs])
    /\ i' = i + 1
    /\ UNCHANGED <<pc, patient_ids, idx, batch, error, supplied, result, deleted>>

\* the end of the roi loop: convert_patient_to_group returns
ReturnFromPatient ==
    /\ pc = "roi_loop"
    /\ i >= Len(batch.structure_mask_names)
    /\ idx' = idx + 1
    /\ pc' = "loop"
    /\ UNCHANGED <<h5file, patient_ids, batch, i, error, supplied, result, deleted>>

\* the statements that call the loader or h5py and would otherwise succeed:
\* each may fail (the loader, the disk)
MayRaise ==
    \/ pc \in {"open", "root_attrs", "get_patients", "attrs", "roi_group"}
              \cup Range(DatasetOrder)
    \/ pc = "create_patients" /\ ~h5file.has_patients
    \/ pc = "create_group" /\ patient_id \notin DOMAIN h5file.patients
    \/ pc = "roi_loop" /\ i < Len(batch.structure_mask_names)

\* Raise, were the failure caught in the loop and the next patient taken
RaiseAndContinue ==
    /\ MayRaise
    /\ pc' = IF pc \in {"open", "root_attrs", "create_patients"} THEN "raised" ELSE "loop"
    /\ idx' = IF pc \in {"open", "root_attrs", "create_patients"} THEN idx ELSE idx + 1
    /\ error' = [type |-> "OSError", at |-> pc]
    /\ UNCHANGED <<h5file, patient_ids, batch, i, supplied, result, deleted>>

\* a statement raises: nothing in convert_dataset or convert_patient_to_group
\* catches it; the with block closes the file as written so far
Raise ==
    /\ MayRaise
    /\ pc' = "raised"
    /\ error' = [type |-> "OSError", at |-> pc]
    /\ UNCHANGED <<h5file, patient_ids, idx, batch, i, supplied, result, deleted>>

----------------------------------------------------------------------------
(* The readers *)

Returned(op, id, value) ==
    [op |-> op, id |-> id, status |-> "returned", exception |-> "none", value |-> value]

Raised(op, id, exception) ==
    [op |-> op, id |-> id, status |-> "raised", exception |-> exception, value |-> <<>>]

\* the optional patient_id argument of load_from_hdf5
ReaderArguments ==
    {[is_none |-> TRUE, id |-> ""]} \cup {[is_none |-> FALSE, id |-> p] : p \in PatientIds}

\* load_from_hdf5, were the names loop one index short
load_from_hdf5_short(f, arg) ==
    LET op == "load_from_hdf5"
        group == f.patients[arg.id]
        data == [key \in DOMAIN group.datasets |-> NpArray(group.datasets[key])]
    IN  IF ~f.exists THEN Raised(op, arg.id, "FileNotFoundError")
        ELSE IF arg.is_none
        THEN IF ~f.has_patients THEN Raised(op, arg.id, "KeyError")
             ELSE Returned(op, arg.id, Keys(f.patients))
        ELSE IF ~f.has_patients THEN Raised(op, arg.id, "KeyError")
        ELSE IF arg.id \notin DOMAIN f.patients
        THEN Raised(op, arg.id, "ValueError: Patient not found")
        ELSE IF ~group.has_roi_names THEN Returned(op, arg.id, data)
        ELSE IF "structure_masks" \notin DOMAIN data THEN Raised(op, arg.id, "KeyError")
        ELSE Returned(op, arg.id,
                ("structure_mask_names" :>
                    [n \in 1..(TrailingExtent(data["structure_masks"]) - 1) |->
                        AttrsGet(group.roi_attrs, RoiKey(n - 1), Unknown(n - 1))])
                @@ data)

\* HDF5Converter.load_from_hdf5(patient_id)
load_from_hdf5(f, arg) ==
    LET op == "load_from_hdf5"
        group == f.patients[arg.id]
        data == [key \in DOMAIN group.datasets |-> NpArray(group.datasets[key])]
    IN  IF ~f.exists THEN Raised(op, arg.id, "FileNotFoundError")
        ELSE IF arg.is_none
        THEN IF ~f.has_patients THEN Raised(op, arg.id, "KeyError")
             ELSE Returned(op, arg.id, Keys(f.patients))
        ELSE IF ~f.has_patients THEN Raised(op, arg.id, "KeyError")
        ELSE IF arg.id \notin DOMAIN f.patients
        THEN Raised(op, arg.id, "ValueError: Patient not found")
        ELSE IF ~group.has_roi_names THEN Returned(op, arg.id, data)
        ELSE IF "structure_masks" \notin DOMAIN data THEN Raised(op, arg.id, "KeyError")
        ELSE Returned(op, arg.id,
                ("structure_mask_names" :>
                    [n \in 1..TrailingExtent(data["structure_masks"]) |->
                        AttrsGet(group.roi_attrs, RoiKey(n - 1), Unknown(n - 1))])
                @@ data)

\* example_hdf5_usage.list_patients(h5_path)
list_patients(f) ==
    LET op == "list_patients"
    IN  IF ~f.exists THEN Raised(op, "", "FileNotFoundError")
        ELSE IF f.has_patients THEN Returned(op, "", Keys(f.patients))
        ELSE Returned(op, "", <<>>)

\* load_patient_data, were a missing roi attribute to raise instead of being
\* replaced
load_patient_data_strict(f, id) ==
    LET op == "load_patient_data"
        group == f.patients[id]
        data == [key \in DOMAIN group.datasets |-> NpArray(group.datasets[key])]
    IN  IF ~f.exists THEN Raised(op, id, "FileNotFoundError")
        ELSE IF ~f.has_patients \/ id \notin DOMAIN f.patients
        THEN Raised(op, id, "ValueError: Patient not found")
        ELSE IF ~group.has_roi_names THEN Returned(op, id, data)
        ELSE IF "structure_masks" \notin DOMAIN data THEN Raised(op, id, "KeyError")
        ELSE IF \E n \in 1..TrailingExtent(data["structure_masks"]) :
                    RoiKey(n - 1) \notin DOMAIN group.roi_attrs
        THEN Raised(op, id, "KeyError")
        ELSE Returned(op, id,
                ("structure_mask_names" :>
                    [n \in 1..TrailingExtent(data["structure_masks"]) |->
                        group.roi_attrs[RoiKey(n - 1)]])
                @@ data)

\* example_hdf5_usage.load_patient_data(h5_path, patient_id)
load_patient_data(f, id) ==
    LET op == "load_patient_data"
        group == f.patients[id]
        data == [key \in DOMAIN group.datasets |-> NpArray(group.datasets[key])]
    IN  IF ~f.exists THEN Raised(op, id, "FileNotFoundError")
        ELSE IF ~f.has_patients \/ id \notin DOMAIN f.patients
        THEN Raised(op, id, "ValueError: Patient not found")
        ELSE IF ~group.has_roi_names THEN Returned(op, id, data)
        ELSE IF "structure_masks" \notin DOMAIN data THEN Raised(op, id, "KeyError")
        ELSE Returned(op, id,
                ("structure_mask_names" :>
                    [n \in 1..TrailingExtent(data["structure_masks"]) |->
                        AttrsGet(group.roi_attrs, RoiKey(n - 1), Unknown(n - 1))])
                @@ data)

\* the program is single-threaded: a reader runs when convert_dataset does not
ConverterAtRest == pc \in {"idle", "done", "raised"}

LoadFromHdf5(arg) ==
    /\ ConverterAtRest
    /\ result' = load_from_hdf5(h5file, arg)
    /\ UNCHANGED <<h5file, pc, patient_ids, idx, batch, i, error, supplied, deleted>>

ListPatients ==
    /\ ConverterAtRest
    /\ result' = list_patients(h5file)
    /\ UNCHANGED <<h5file, pc, patient_ids, idx, batch, i, error, supplied, deleted>>

LoadPatientData(id) ==
    /\ ConverterAtRest
    /\ result' = load_patient_data(h5file, id)
    /\ UNCHANGED <<h5file, pc, patient_ids, idx, batch, i, error, supplied, deleted>>

----------------------------------------------------------------------------
(* Loss of ROI metadata in a finished container *)

Without(f, key) == [k \in DOMAIN f \ {key} |-> f[k]]

\* the attribute roi_<n> of one patient entry is removed
DeleteRoiAttr(id, n) ==
    /\ pc = "done"
    /\ deleted < MaxDeleted
    /\ id \in DOMAIN h5file.patients
    /\ h5file.patients[id].has_roi_names
    /\ RoiKey(n) \in DOMAIN h5file.patients[id].roi_attrs
    /\ h5file' = WithPatient(h5file, id,
            [h5file.patients[id] EXCEPT !.roi_attrs = Without(@, RoiKey(n))])
    /\ deleted' = deleted + 1
    /\ result' = NoResult
    /\ UNCHANGED <<pc, patient_ids, idx, batch, i, error, supplied>>

----------------------------------------------------------------------------
(* Specifications *)

Next ==
    \/ \E arg \in Arguments : ConvertDataset(arg)
    \/ OpenFile
    \/ WriteRootAttrs
    \/ CreatePatientsGroup
    \/ NextPatient
    \/ GetPatients
    \/ CreatePatientGroup
    \/ WritePatientAttrs
    \/ \E k \in 1..Len(DatasetOrder) : CreateDataset(k)
    \/ CreateRoiGroup
    \/ WriteRoiName
    \/ ReturnFromPatient
    \/ Raise
    \/ \E arg \in ReaderArguments : LoadFromHdf5(arg)
    \/ ListPatients
    \/ \E id \in PatientIds : LoadPatientData(id)

\* the converter and the readers
Spec == Init /\ [][Next]_vars

NextWithLoss ==
    \/ Next
    \/ \E id \in PatientIds, n \in 0..(MaxRois - 1) : DeleteRoiAttr(id, n)

\* the converter, the readers, and the loss of roi_<i> attributes afterwards
SpecWithLoss == Init /\ [][NextWithLoss]_vars

----------------------------------------------------------------------------
(* Vocabulary of the properties *)

\* the patients convert_patient_to_group has returned for
Finished == {patient_ids[k] : k \in 1..(idx - 1)}

\* the patients convert_dataset has reached, the current one included
Reached == {patient_ids[k] : k \in 1..idx} \cap Range(patient_ids)

IsLoad(r) == r.op \in {"load_from_hdf5", "load_patient_data"} /\ r.id \in PatientIds

IsListing(r) == r.op = "list_patients" \/ (r.op = "load_from_hdf5" /\ r.id = "")

ArrayFields == Range(DatasetOrder)

----------------------------------------------------------------------------
(* C1 *)

\* C1: round trip.  A load (by either reader) of a patient that
\* convert_patient_to_group has finished writing returns, for each of dose, ct,
\* structure_masks, possible_dose_mask and voxel_dimensions, the array the
\* loader's batch supplied for that patient, and structure_mask_names equal to
\* the batch's list, element for element.
RoundTrip ==
    (IsLoad(result) /\ result.id \in Finished) =>
        /\ result.status = "returned"
        /\ ArrayFields \cup {"structure_mask_names"} \subseteq DOMAIN result.value
        /\ result.value["dose"] = supplied[result.id].dose[1]
        /\ result.value["ct"] = supplied[result.id].ct[1]
        /\ result.value["structure_masks"] = supplied[result.id].structure_masks[1]
        /\ result.value["possible_dose_mask"] = supplied[result.id].possible_dose_mask[1]
        /\ result.value["voxel_dimensions"] = supplied[result.id].voxel_dimensions[1]
        /\ result.value["structure_mask_names"] = supplied[result.id].structure_mask_names

\* a patient with two ROIs, written second in a completed run, has been read back
RoundTripWitness ==
    /\ pc = "done"
    /\ IsLoad(result)
    /\ result.status = "returned"
    /\ Len(patient_ids) = 2
    /\ result.id = patient_ids[2]
    /\ Len(supplied[result.id].structure_mask_names) = 2

----------------------------------------------------------------------------
(* C2 *)

\* C2: uniqueness.  When convert_patient_to_group reaches create_group for a
\* patient ID that already has an entry under 'patients', it raises the
\* collision failure and the file, the first entry included, stays as it was.
Uniqueness ==
    [][(pc = "create_group" /\ patient_id \in DOMAIN h5file.patients) =>
        /\ pc' = "raised"
        /\ error'.type = "ValueError: name already exists"
        /\ h5file' = h5file]_vars

\* the second occurrence of an ID in the list has collided with the complete
\* entry of the first
UniquenessWitness ==
    /\ pc = "raised"
    /\ error = [type |-> "ValueError: name already exists", at |-> "create_group"]
    /\ idx = 2
    /\ patient_ids[1] = patient_ids[2]
    /\ h5file.patients[patient_ids[1]].has_roi_names
    /\ Cardinality(DOMAIN h5file.patients[patient_ids[1]].roi_attrs) = 2

----------------------------------------------------------------------------
(* C3 *)

\* C3 as stated: after a completed run the listing returns the IDs in the order
\* in which convert_dataset iterated over them.
ListingInInsertionOrder ==
    (pc = "done" /\ IsListing(result) /\ result.status = "returned") =>
        result.value = patient_ids

\* C3: listing order, amended.  After a completed run the listing (by either
\* reader) returns exactly the IDs of the list, each once, in increasing name
\* order.
ListingInNameOrder ==
    (pc = "done" /\ IsListing(result) /\ result.status = "returned") =>
        /\ Len(result.value) = Len(patient_ids)
        /\ Range(result.value) = Range(patient_ids)
        /\ \A a, b \in 1..Len(result.value) :
            a < b => NameRank(result.value[a]) < NameRank(result.value[b])

\* two patients written in decreasing name order have been listed
ListingWitness ==
    /\ pc = "done"
    /\ IsListing(result)
    /\ result.status = "returned"
    /\ Len(patient_ids) = 2
    /\ NameRank(patient_ids[1]) > NameRank(patient_ids[2])
    /\ result.value = <<patient_ids[2], patient_ids[1]>>

----------------------------------------------------------------------------
(* C4 *)

\* C4: empty-container boundary.  On a container whose 'patients' group is
\* absent or holds no entry, the listing (by either reader) returns the empty
\* sequence and does not raise.
EmptyContainerListing ==
    (/\ IsListing(result)
     /\ h5file.exists
     /\ (~h5file.has_patients \/ DOMAIN h5file.patients = {})) =>
        /\ result.status = "returned"
        /\ result.value = <<>>

----------------------------------------------------------------------------
(* C5 *)

\* C5: unknown patient.  A load (by either reader) of an ID that has no entry in
\* the container, the container without 'patients' group included, raises the
\* not-found failure and returns nothing.
UnknownPatientNotFound ==
    (/\ IsLoad(result)
     /\ h5file.exists
     /\ (~h5file.has_patients \/ result.id \notin DOMAIN h5file.patients)) =>
        /\ result.status = "raised"
        /\ result.exception = "ValueError: Patient not found"
        /\ result.value = <<>>

----------------------------------------------------------------------------
(* C6 *)

\* C6: metadata resilience.  A load (by either reader) of a finished patient
\* entry succeeds whichever roi_<i> attributes the entry has lost; the names
\* list keeps the length of the written list, holds "Unknown_<i>" at each index
\* i whose attribute is missing and the written name at every other index.
MetadataResilience ==
    (IsLoad(result) /\ result.id \in Finished) =>
        /\ result.status = "returned"
        /\ "structure_mask_names" \in DOMAIN result.value
        /\ Len(result.value["structure_mask_names"])
                = Len(supplied[result.id].structure_mask_names)
        /\ \A n \in 0..(Len(supplied[result.id].structure_mask_names) - 1) :
            result.value["structure_mask_names"][n + 1] =
                IF RoiKey(n) \in DOMAIN h5file.patients[result.id].roi_attrs
                THEN supplied[result.id].structure_mask_names[n + 1]
                ELSE Unknown(n)

\* one of the two roi attributes of a patient has been removed, the other
\* patient's entry is whole, and the patient has been read back
MetadataResilienceWitness ==
    /\ pc = "done"
    /\ deleted = 1
    /\ IsLoad(result)
    /\ result.status = "returned"
    /\ Len(patient_ids) = 2
    /\ patient_ids[1] # patient_ids[2]
    /\ result.id = patient_ids[1]
    /\ DOMAIN h5file.patients[result.id].roi_attrs = {"roi_1"}
    /\ result.value["structure_mask_names"] = <<"Unknown_0", "A">>
    /\ Cardinality(DOMAIN h5file.patients[patient_ids[2]].roi_attrs) = 2

----------------------------------------------------------------------------
(* C7 *)

\* C7 as stated: a load of any patient ID present in the container returns one
\* entry per stored dataset and always a structure_mask_names list whose
\* length is the num_rois attribute.
ResultShapeAlwaysNamed ==
    (/\ IsLoad(result)
     /\ h5file.exists
     /\ h5file.has_patients
     /\ result.id \in DOMAIN h5file.patients) =>
        /\ result.status = "returned"
        /\ DOMAIN result.value
                = DOMAIN h5file.patients[result.id].datasets \cup {"structure_mask_names"}
        /\ "num_rois" \in DOMAIN h5file.patients[result.id].attrs
        /\ Len(result.value["structure_mask_names"])
                = h5file.patients[result.id].attrs["num_rois"]

\* C7: result shape, amended.  A load (by either reader) of any patient ID
\* present in the container returns one entry per stored dataset, holding that
\* dataset's array; it returns structure_mask_names in addition exactly when
\* the entry has its roi_names group, and then the list's length is the
\* trailing extent of structure_masks, equal to the num_rois attribute, with the
\* entry at ordinal n read from roi_<n> or replaced by "Unknown_<n>".
ResultShape ==
    (/\ IsLoad(result)
     /\ h5file.exists
     /\ h5file.has_patients
     /\ result.id \in DOMAIN h5file.patients) =>
        LET entry == h5file.patients[result.id]
            names == result.value["structure_mask_names"]
        IN  /\ result.status = "returned"
            /\ DOMAIN result.value \ {"structure_mask_names"} = DOMAIN entry.datasets
            /\ \A key \in DOMAIN entry.datasets : result.value[key] = entry.datasets[key].data
            /\ "structure_mask_names" \in DOMAIN result.value <=> entry.has_roi_names
            /\ entry.has_roi_names =>
                /\ Len(names) = TrailingExtent(entry.datasets["structure_masks"].data)
                /\ Len(names) = entry.attrs["num_rois"]
                /\ \A n \in 0..(Len(names) - 1) :
                    names[n + 1] \in {Unknown(n)} \cup
                        {entry.roi_attrs[key] : key \in DOMAIN entry.roi_attrs \cap {RoiKey(n)}}

\* an entry whose write failed before roi_names was created has been read back:
\* the result holds the datasets written so far and no structure_mask_names
ResultShapeWitness ==
    /\ pc = "raised"
    /\ IsLoad(result)
    /\ result.status = "returned"
    /\ DOMAIN result.value = {"dose", "ct", "structure_masks"}

----------------------------------------------------------------------------
(* C8 *)

\* C8: per-entry ROI invariant.  In every entry convert_patient_to_group has
\* finished writing, the roi_<i> attributes are exactly those of the indices
\* 0..num_rois-1 and num_rois is the trailing extent of structure_masks.
PerEntryRoiInvariant ==
    \A id \in Finished :
        LET entry == h5file.patients[id]
        IN  /\ entry.has_roi_names
            /\ "num_rois" \in DOMAIN entry.attrs
            /\ DOMAIN entry.roi_attrs = {RoiKey(n) : n \in 0..(entry.attrs["num_rois"] - 1)}
            /\ entry.attrs["num_rois"] = TrailingExtent(entry.datasets["structure_masks"].data)

\* two entries with different numbers of ROIs have been finished
PerEntryRoiWitness ==
    /\ pc = "loop"
    /\ Cardinality(Finished) = 2
    /\ h5file.patients[patient_ids[1]].attrs["num_rois"] = 1
    /\ h5file.patients[patient_ids[2]].attrs["num_rois"] = 2

----------------------------------------------------------------------------
(* C9 *)

\* the statements of convert_patient_to_group
PatientStatements ==
    {"get_patients", "create_group", "attrs", "roi_group", "roi_loop"} \cup Range(DatasetOrder)

\* the entry holds everything convert_patient_to_group writes
Complete(entry) ==
    /\ DOMAIN entry.attrs = {"id", "num_rois"}
    /\ DOMAIN entry.datasets = ArrayFields
    /\ entry.has_roi_names
    /\ Cardinality(DOMAIN entry.roi_attrs) = entry.attrs["num_rois"]

\* a failure of the patient at position idx: convert_dataset has raised, the
\* loader was asked for no later patient, no later patient has an entry, and
\* the entries of the earlier patients are complete
AbortedAtPatient ==
    (error.type # "none" /\ error.at \in PatientStatements) =>
        /\ pc = "raised"
        /\ idx \in 1..Len(patient_ids)
        /\ DOMAIN supplied \subseteq Reached
        /\ DOMAIN h5file.patients \subseteq Reached
        /\ \A id \in Finished : id \in DOMAIN h5file.patients /\ Complete(h5file.patients[id])

\* C9: abort policy.  When a statement of the write of the k-th patient fails,
\* convert_dataset raises at once (AbortedAtPatient); the step that raises
\* leaves the file as written so far (no rollback), and once raised, neither
\* the file nor the set of patients requested from the loader changes again
\* (no retry, no later patient).
AbortPolicy ==
    /\ []AbortedAtPatient
    /\ [][(pc # "raised" /\ pc' = "raised") => (h5file' = h5file /\ supplied' = supplied)]_vars
    /\ [][pc = "raised" =>
            (pc' = "raised" /\ h5file' = h5file /\ supplied' = supplied /\ idx' = idx)]_vars

\* the write of the second of two patients has failed at create_dataset('ct'):
\* the first entry is complete, the second holds its attributes and dose only
AbortPolicyWitness ==
    /\ pc = "raised"
    /\ error = [type |-> "OSError", at |-> "ct"]
    /\ idx = 2
    /\ Len(patient_ids) = 2
    /\ Complete(h5file.patients[patient_ids[1]])
    /\ DOMAIN h5file.patients[patient_ids[2]].datasets = {"dose"}

----------------------------------------------------------------------------
(* C10 *)

RootAttrs == {"num_patients", "patient_shape", "rois"}

\* C10: completed-run consistency.  When convert_dataset has returned normally,
\* the keys of 'patients' are exactly the IDs of patient_ids and num_patients is
\* the number of entries; and while the run writes patient entries, the three
\* root attributes are already there.
CompletedRunConsistency ==
    /\ pc = "done" =>
        /\ h5file.exists
        /\ h5file.has_patients
        /\ DOMAIN h5file.patients = Range(patient_ids)
        /\ "num_patients" \in DOMAIN h5file.attrs
        /\ h5file.attrs["num_patients"] = Cardinality(DOMAIN h5file.patients)
    /\ (pc \in PatientStatements \cup {"loop", "done"}) =>
        /\ RootAttrs \subseteq DOMAIN h5file.attrs
        /\ h5file.attrs["num_patients"] = Len(patient_ids)

\* a run over two patients has returned normally
CompletedRunWitness ==
    /\ pc = "done"
    /\ error = NoError
    /\ Len(patient_ids) = 2
    /\ "pt_10" \notin Range(patient_ids)
    /\ Cardinality(DOMAIN h5file.patients) = 2

====
